---- MODULE Spec2Model ----
(***************************************************************************)
(* Model of cord19_app.py, the CORD-19 Data Explorer: a Streamlit script   *)
(* that loads metadata.csv once (st.cache_data), lets the user pick a year *)
(* range with a slider, and on every rerun filters the table and computes  *)
(* the year histogram, the top journals, the top title words, a sample and *)
(* the per-source counts.  One action per statement group of the script;   *)
(* pc is the position of the current script run.                           *)
(***************************************************************************)
EXTENDS Integers, Sequences, FiniteSets

\* ------------------------------------------------------------------ bounds
\* Longest metadata.csv (data rows) the small-input specification draws.
MaxRows == 3
\* Most rows appended to the generated many-journal file of SpecBulk.
MaxExtra == 1

\* ------------------------------------------------------- program constants
DefaultLo == 2020
DefaultHi == 2021
TopJournals == 10
TopWords == 20
SampleRows == 10

\* ------------------------------------------------------------- cell values
\* A missing cell (pandas NaN) of an integer-coded text column.
NA == 0
\* The year of a row whose publish_time did not parse (NaT.year is NaN).
NaN == 0 - 1

\* A whitespace-separated token of a text cell: a stem and its letter case.
Word(s, u) == [stem |-> s, upper |-> u]
\* A text cell holding the tokens ts; NAText is the missing text cell.
Text(ts) == [na |-> FALSE, tokens |-> ts]
NAText == [na |-> TRUE, tokens |-> <<>>]

\* publish_time cells: missing, text that is no date, or a date of year y.
NoDate == [kind |-> "missing", year |-> 0]
BadDate == [kind |-> "text", year |-> 0]
Date(y) == [kind |-> "date", year |-> y]
NaT == [kind |-> "NaT", year |-> 0]

Row(t, p, j, a, s) ==
    [title |-> t, publish_time |-> p, journal |-> j, abstract |-> a, source |-> s]

\* ---------------------------------------------------------- generic helpers
Min(a, b) == IF a <= b THEN a ELSE b
Max(a, b) == IF a >= b THEN a ELSE b
Range(s) == {s[i] : i \in DOMAIN s}
SetMin(S) == CHOOSE x \in S : \A y \in S : x <= y
SetMax(S) == CHOOSE x \in S : \A y \in S : x >= y

RECURSIVE Flatten(_)
\* [word for sublist in titles for word in sublist]
Flatten(ss) ==
    IF ss = <<>> THEN <<>>
    ELSE IF Len(ss) = 1 THEN ss[1]
    ELSE Flatten(SubSeq(ss, 1, Len(ss) \div 2))
             \o Flatten(SubSeq(ss, Len(ss) \div 2 + 1, Len(ss)))

\* head without its cut: every entry is kept.
headAll(s, n) == s
\* Series.head(n) / DataFrame.head(n): the first n entries.
head(s, n) == IF Len(s) <= n THEN s ELSE SubSeq(s, 1, n)

\* ------------------------------------------------------------------ loader
\* df.dropna(subset=['title', 'publish_time'])
dropna(rows) ==
    SelectSeq(rows, LAMBDA r : ~r.title.na /\ r.publish_time.kind # "missing")

\* pd.to_datetime(..., errors='coerce'): text that is no date becomes NaT.
to_datetime(p) == IF p.kind = "date" THEN p ELSE NaT

\* .dt.year
dt_year(d) == IF d.kind = "NaT" THEN NaN ELSE d.year

\* df['abstract'].fillna('').apply(lambda x: len(x.split()))
abstract_word_count(a) == Len(IF a.na THEN <<>> ELSE a.tokens)

\* One row of the table load_data returns.
Derive(r) ==
    [title |-> r.title, publish_time |-> to_datetime(r.publish_time),
     journal |-> r.journal, abstract |-> r.abstract, source |-> r.source,
     year |-> dt_year(to_datetime(r.publish_time)),
     abstract_word_count |-> abstract_word_count(r.abstract)]

\* load_data's body without the dropna of line 27.
LoadKeepAll(rows) == [i \in DOMAIN rows |-> Derive(rows[i])]
\* The body of load_data applied to the rows read from metadata.csv.
LoadTable(rows) == LET kept == dropna(rows) IN [i \in DOMAIN kept |-> Derive(kept[i])]

\* ------------------------------------------------------------------ filter
\* Comparisons of a float column with an integer: NaN compares False.
Ge(y, lo) == y # NaN /\ y >= lo
Le(y, hi) == y # NaN /\ y <= hi

\* The filter with an exclusive upper end.
FilterStrict(t, lo, hi) == SelectSeq(t, LAMBDA r : Ge(r.year, lo) /\ r.year < hi)
\* df[(df['year'] >= year_range[0]) & (df['year'] <= year_range[1])]
Filter(t, lo, hi) == SelectSeq(t, LAMBDA r : Ge(r.year, lo) /\ Le(r.year, hi))

\* ------------------------------------------------------------- aggregators
Column(t, c) == [i \in DOMAIN t |-> t[i][c]]

\* The distinct values of a sequence in order of first appearance.
Distinct(s) ==
    LET first == {i \in DOMAIN s : \A j \in 1..(i - 1) : s[j] # s[i]}
        rank == [i \in first |-> Cardinality({j \in first : j <= i})]
    IN [k \in 1..Cardinality(first) |-> s[CHOOSE i \in first : rank[i] = k]]

Occurrences(s, v) == Cardinality({i \in DOMAIN s : s[i] = v})

\* The hash-table pass of value_counts and of Counter: <<value, count>> pairs
\* in order of first appearance.
CountPairs(s) ==
    LET keys == Distinct(s)
    IN [i \in DOMAIN keys |-> <<keys[i], Occurrences(s, keys[i])>>]

\* value_counts counts with dropna=True: the missing cells are left out.
NotMissing(s, missing) == SelectSeq(s, LAMBDA v : v # missing)

RECURSIVE SortedByIndex(_)
\* Series.sort_index(): ascending by key (the keys are distinct).
SortedByIndex(P) ==
    IF P = {} THEN <<>>
    ELSE LET p == CHOOSE q \in P : \A r \in P : q[1] <= r[1]
         IN <<p>> \o SortedByIndex(P \ {p})

sort_index(pairs) == SortedByIndex(Range(pairs))

\* The year counts without sort_index(): in order of first appearance.
YearCountsUnsorted(f) == CountPairs(NotMissing(Column(f, "year"), NaN))
\* filtered_df['year'].value_counts().sort_index()
YearCounts(f) == sort_index(CountPairs(NotMissing(Column(f, "year"), NaN)))

RECURSIVE DescendingOrders(_)
\* Series.sort_values(ascending=False) as value_counts calls it: the default
\* sort kind is not a stable one, so every order of the pairs with
\* non-increasing counts is an outcome.
DescendingOrders(P) ==
    IF P = {} THEN {<<>>}
    ELSE LET m == SetMax({p[2] : p \in P})
         IN UNION {{<<p>> \o t : t \in DescendingOrders(P \ {p})} :
                   p \in {q \in P : q[2] = m}}

\* Series.value_counts(): the outcomes for a column with missing value NA.
value_counts(s) == DescendingOrders(Range(CountPairs(NotMissing(s, NA))))

\* sorted(items, key=itemgetter(1), reverse=True): a stable sort, so a pair
\* comes after the pairs with a greater count and after the earlier pairs
\* with the same count.
StableDescending(pairs) ==
    LET place == [i \in DOMAIN pairs |->
                    1 + Cardinality({j \in DOMAIN pairs :
                            \/ pairs[j][2] > pairs[i][2]
                            \/ pairs[j][2] = pairs[i][2] /\ j < i})]
    IN [k \in DOMAIN pairs |-> pairs[CHOOSE i \in DOMAIN pairs : place[i] = k]]

\* The token as written, without str.lower().
lowerKeep(w) == w
\* str.lower() of one token.
lower(w) == [w EXCEPT !.upper = FALSE]

\* filtered_df['title'].dropna().str.lower().str.split()
titles(f) ==
    LET present == SelectSeq(Column(f, "title"), LAMBDA t : ~t.na)
    IN [i \in DOMAIN present |->
            [j \in DOMAIN present[i].tokens |-> lower(present[i].tokens[j])]]

\* Counter(all_words): the words with their counts, in first-seen order.
word_freq(f) == CountPairs(Flatten(titles(f)))

\* most_common over the counts taken in reverse: ties go to the last seen.
most_commonLastSeen(c, n) ==
    LET r == StableDescending([i \in DOMAIN c |-> c[Len(c) + 1 - i]])
    IN IF Len(r) <= n THEN r ELSE SubSeq(r, 1, n)
\* Counter.most_common(n): heapq.nlargest, i.e. sorted(...)[:n].
most_common(c, n) ==
    LET r == StableDescending(c) IN IF Len(r) <= n THEN r ELSE SubSeq(r, 1, n)

\* filtered_df[['title', 'journal', 'year']].head(10)
SampleOf(f) ==
    head([i \in DOMAIN f |->
            [title |-> f[i].title, journal |-> f[i].journal, year |-> f[i].year]],
         SampleRows)

\* ------------------------------------------------------------------ inputs
RequiredColumns == {"title", "publish_time", "journal", "abstract"}
\* The header of metadata.csv: the source column is named source_x in the
\* CORD-19 release and source in the documented input interface.
Headers == {RequiredColumns \cup {"source"}, RequiredColumns \cup {"source_x"}}

w1 == Word(1, FALSE)
W1 == Word(1, TRUE)
w2 == Word(2, FALSE)

\* The data rows the small files are made of: a row of each of the years
\* 2019, 2020 and 2021 (the last with a blank title and no journal or
\* source), a row without title, a row without publish_time, and a row
\* whose publish_time is no date.
Catalogue ==
    { Row(Text(<<w1>>), Date(DefaultLo - 1), 1, Text(<<w1, w2>>), 1),
      Row(Text(<<W1, w2>>), Date(DefaultLo), 2, NAText, 2),
      Row(Text(<<>>), Date(DefaultHi), NA, Text(<<>>), NA),
      Row(NAText, Date(DefaultLo), 1, NAText, 1),
      Row(Text(<<w2>>), NoDate, 2, Text(<<w1>>), 2),
      Row(Text(<<w1, w1>>), BadDate, 1, NAText, 1) }

SeqsUpTo(S, n) == UNION {[1..k -> S] : k \in 0..n}

SmallFiles ==
    {[columns |-> h, rows |-> rs] : h \in Headers, rs \in SeqsUpTo(Catalogue, MaxRows)}

\* A generated file with TopJournals + 1 journals and TopWords + 1 title
\* words.  Journal j is on BulkCount(j) rows (1, 1, 2, 2, 3, 4, 5, ...), the
\* journals are first seen in the order 1, 2, ..., and the rows go round by
\* round, so the most frequent journals and words are not the first seen.
BulkJournals == TopJournals + 1
BulkWords == TopWords + 1
BulkCount(j) == IF j <= 4 THEN (j + 1) \div 2 ELSE j - 2

RECURSIVE Rounds(_)
Rounds(k) ==
    IF k > BulkCount(BulkJournals) THEN <<>>
    ELSE SelectSeq([j \in 1..BulkJournals |-> j], LAMBDA j : BulkCount(j) >= k)
             \o Rounds(k + 1)

BulkRows ==
    LET js == Rounds(1)
    IN [r \in DOMAIN js |->
           Row(Text(<<Word(((r - 1) % BulkWords) + 1, r > BulkWords)>>),
               Date(DefaultLo), js[r], NAText, 1 + (r % 2))]

ExtraCatalogue ==
    { Row(Text(<<Word(BulkWords, TRUE), Word(BulkWords, FALSE)>>),
          Date(DefaultLo), 1, NAText, 1),
      Row(Text(<<Word(BulkWords + 1, FALSE)>>), Date(DefaultHi),
          BulkJournals + 1, NAText, 2),
      Row(Text(<<Word(TopWords, FALSE)>>), Date(DefaultLo), 2, NAText, NA) }

BulkFiles ==
    {[columns |-> h, rows |-> BulkRows \o ex] :
        h \in Headers, ex \in SeqsUpTo(ExtraCatalogue, MaxExtra)}

\* ------------------------------------------------------------------- state
VARIABLES
    file,           \* metadata.csv on disk: its header and its data rows
    cache,          \* st.cache_data's entry for load_data()
    loads,          \* how many times pd.read_csv has read the file
    pc,             \* the statement group the script run is at
    err,            \* the exception that ended the run, or "none"
    slider,         \* the year slider widget of the session
    df,             \* the table load_data() returned to this run
    min_year, max_year,
    year_range, filtered_df, year_counts, top_journals, common_words,
    sample, source_counts

views == <<df, min_year, max_year, year_range, filtered_df, year_counts,
           top_journals, common_words, sample, source_counts>>
vars == <<file, cache, loads, pc, err, slider, views>>

Steps == <<"load", "bounds", "slider", "filter", "year_counts", "top_journals",
           "common_words", "sample", "source", "done">>
StepIndex(s) == CHOOSE i \in DOMAIN Steps : Steps[i] = s
\* The run has gone past step s.
Past(s) == StepIndex(pc) > StepIndex(s)
\* The run has executed the assignment of step s (it may have raised later
\* in the same statement group).
Computed(s) == Past(s) \/ (pc = s /\ err # "none")
Idle == pc = "done" \/ err # "none"

NoTable == [columns |-> {}, rows |-> <<>>]
NotCached == [loaded |-> FALSE, value |-> NoTable]
NoSlider == [shown |-> FALSE, min |-> 0, max |-> 0, value |-> <<DefaultLo, DefaultHi>>]

\* The state a script run starts from: nothing of the previous run is kept
\* but the cache and the widget state.
FreshRun ==
    /\ pc' = "load"
    /\ err' = "none"
    /\ df' = NoTable
    /\ min_year' = 0
    /\ max_year' = 0
    /\ year_range' = <<0, 0>>
    /\ filtered_df' = NoTable
    /\ year_counts' = <<>>
    /\ top_journals' = <<>>
    /\ common_words' = <<>>
    /\ sample' = <<>>
    /\ source_counts' = <<>>

InitRun ==
    /\ cache = NotCached
    /\ loads = 0
    /\ pc = "load"
    /\ err = "none"
    /\ slider = NoSlider
    /\ df = NoTable
    /\ min_year = 0
    /\ max_year = 0
    /\ year_range = <<0, 0>>
    /\ filtered_df = NoTable
    /\ year_counts = <<>>
    /\ top_journals = <<>>
    /\ common_words = <<>>
    /\ sample = <<>>
    /\ source_counts = <<>>

Init == file \in SmallFiles /\ InitRun
InitBulk == file \in BulkFiles /\ InitRun

\* ----------------------------------------------------------------- actions
\* pd.read_csv("metadata.csv") and the rest of load_data's body.
ReadFile == [columns |-> file.columns, rows |-> LoadTable(file.rows)]

\* df = load_data(), without st.cache_data: the file is read on every run.
load_data_uncached ==
    /\ pc = "load" /\ err = "none"
    /\ df' = ReadFile
    /\ cache' = [loaded |-> TRUE, value |-> ReadFile]
    /\ loads' = loads + 1
    /\ pc' = "bounds"
    /\ UNCHANGED <<file, err, slider, min_year, max_year, year_range, filtered_df,
                   year_counts, top_journals, common_words, sample, source_counts>>

\* df = load_data() under @st.cache_data: the body runs on a cache miss and
\* its result is stored; a hit returns a copy of the stored table.
load_data ==
    /\ pc = "load" /\ err = "none"
    /\ IF cache.loaded
         THEN /\ df' = cache.value
              /\ UNCHANGED <<cache, loads>>
         ELSE /\ df' = ReadFile
              /\ cache' = [loaded |-> TRUE, value |-> ReadFile]
              /\ loads' = loads + 1
    /\ pc' = "bounds"
    /\ UNCHANGED <<file, err, slider, min_year, max_year, year_range, filtered_df,
                   year_counts, top_journals, common_words, sample, source_counts>>

\* The defined values of df['year'] (min() and max() skip NaN).
DefinedYears(t) == {t[i].year : i \in {k \in DOMAIN t : t[k].year # NaN}}

\* min_year = int(df['year'].min()); max_year = int(df['year'].max()):
\* int(nan) raises ValueError when no row has a year.
year_bounds ==
    /\ pc = "bounds" /\ err = "none"
    /\ IF DefinedYears(df.rows) = {}
         THEN /\ err' = "ValueError"
              /\ UNCHANGED <<pc, min_year, max_year>>
         ELSE /\ min_year' = SetMin(DefinedYears(df.rows))
              /\ max_year' = SetMax(DefinedYears(df.rows))
              /\ pc' = "slider"
              /\ UNCHANGED err
    /\ UNCHANGED <<file, cache, loads, slider, df, year_range, filtered_df,
                   year_counts, top_journals, common_words, sample, source_counts>>

\* The value st.slider is given for a session that has not moved it.
DefaultValue(lo, hi) == <<DefaultLo, DefaultHi>>

\* year_range = st.slider(label, min_year, max_year, (2020, 2021)): the
\* widget widens its bounds to hold the value it is given, and returns the
\* session's value once the user has moved it.
year_slider ==
    /\ pc = "slider" /\ err = "none"
    /\ LET given == DefaultValue(min_year, max_year)
           v == IF slider.shown THEN slider.value ELSE given
       IN /\ slider' = [shown |-> TRUE, min |-> Min(min_year, given[1]),
                        max |-> Max(max_year, given[2]), value |-> v]
          /\ year_range' = v
    /\ pc' = "filter"
    /\ UNCHANGED <<file, cache, loads, err, df, min_year, max_year, filtered_df,
                   year_counts, top_journals, common_words, sample, source_counts>>

\* filtered_df = df[(df['year'] >= lo) & (df['year'] <= hi)] and the count label.
filter ==
    /\ pc = "filter" /\ err = "none"
    /\ filtered_df' = [columns |-> df.columns,
                       rows |-> Filter(df.rows, year_range[1], year_range[2])]
    /\ pc' = "year_counts"
    /\ UNCHANGED <<file, cache, loads, err, slider, df, min_year, max_year,
                   year_range, year_counts, top_journals, common_words, sample,
                   source_counts>>

\* year_counts = ...value_counts().sort_index(); ax1.bar takes empty data.
publications_by_year ==
    /\ pc = "year_counts" /\ err = "none"
    /\ year_counts' = YearCounts(filtered_df.rows)
    /\ pc' = "top_journals"
    /\ UNCHANGED <<file, cache, loads, err, slider, df, min_year, max_year,
                   year_range, filtered_df, top_journals, common_words, sample,
                   source_counts>>

\* Series.plot(kind='bar'): with no bar to draw the plotting back end either
\* draws an empty chart or raises IndexError, depending on its version.
BarPlotOutcomes(series) == IF series = <<>> THEN {"none", "IndexError"} ELSE {"none"}

\* top_journals = filtered_df['journal'].value_counts().head(10), then its bar chart.
top_journals_plot ==
    /\ pc = "top_journals" /\ err = "none"
    /\ \E counted \in value_counts(Column(filtered_df.rows, "journal")) :
          top_journals' = head(counted, TopJournals)
    /\ \E e \in BarPlotOutcomes(top_journals') :
          /\ err' = e
          /\ pc' = IF e = "none" THEN "common_words" ELSE pc
    /\ UNCHANGED <<file, cache, loads, slider, df, min_year, max_year, year_range,
                   filtered_df, year_counts, common_words, sample, source_counts>>

\* common_words = Counter(all_words).most_common(20);
\* words, counts = zip(*common_words) raises ValueError when there is no word.
title_words ==
    /\ pc = "common_words" /\ err = "none"
    /\ common_words' = most_common(word_freq(filtered_df.rows), TopWords)
    /\ IF common_words' = <<>>
         THEN err' = "ValueError" /\ UNCHANGED pc
         ELSE pc' = "sample" /\ UNCHANGED err
    /\ UNCHANGED <<file, cache, loads, slider, df, min_year, max_year, year_range,
                   filtered_df, year_counts, top_journals, sample, source_counts>>

\* st.dataframe(filtered_df[['title', 'journal', 'year']].head(10))
sample_papers ==
    /\ pc = "sample" /\ err = "none"
    /\ sample' = SampleOf(filtered_df.rows)
    /\ pc' = "source"
    /\ UNCHANGED <<file, cache, loads, err, slider, df, min_year, max_year,
                   year_range, filtered_df, year_counts, top_journals,
                   common_words, source_counts>>

\* The source column's name in the documented input interface.
SourceColumnDocumented == "source"
\* The column the source chart groups by.
SourceColumn == "source_x"

\* filtered_df['source_x'].value_counts().plot(kind='bar'): KeyError when the
\* table has no column of that name.
papers_by_source ==
    /\ pc = "source" /\ err = "none"
    /\ IF SourceColumn \notin filtered_df.columns
         THEN /\ err' = "KeyError"
              /\ UNCHANGED <<pc, source_counts>>
         ELSE /\ source_counts' \in value_counts(Column(filtered_df.rows, "source"))
              /\ \E e \in BarPlotOutcomes(source_counts') :
                    /\ err' = e
                    /\ pc' = IF e = "none" THEN "done" ELSE pc
    /\ UNCHANGED <<file, cache, loads, slider, df, min_year, max_year, year_range,
                   filtered_df, year_counts, top_journals, common_words, sample>>

\* The user moves the slider to (lo, hi): the widget keeps the value and the
\* script reruns from the top.
set_slider(lo, hi) ==
    /\ Idle /\ slider.shown
    /\ slider.min <= lo /\ lo <= hi /\ hi <= slider.max
    /\ <<lo, hi>> # slider.value
    /\ slider' = [slider EXCEPT !.value = <<lo, hi>>]
    /\ FreshRun
    /\ UNCHANGED <<file, cache, loads>>

\* A rerun with no widget change (the app's Rerun command).
rerun ==
    /\ Idle
    /\ FreshRun
    /\ UNCHANGED <<file, cache, loads, slider>>

\* Between runs, metadata.csv is rewritten on disk, truncated to the first
\* half of its data rows.
file_change ==
    /\ Idle
    /\ file.rows # <<>>
    /\ file' = [file EXCEPT !.rows = SubSeq(@, 1, Len(@) \div 2)]
    /\ UNCHANGED <<cache, loads, pc, err, slider, views>>

\* The years a slider over the input files can show.
SliderYears == (DefaultLo - 1)..DefaultHi

Next ==
    \/ load_data
    \/ year_bounds
    \/ year_slider
    \/ filter
    \/ publications_by_year
    \/ top_journals_plot
    \/ title_words
    \/ sample_papers
    \/ papers_by_source
    \/ \E lo \in SliderYears, hi \in SliderYears : set_slider(lo, hi)
    \/ rerun
    \/ file_change

\* Small files: every sequence of at most MaxRows catalogue rows.
Spec == Init /\ [][Next]_vars
\* The generated files with more than TopJournals journals and TopWords words.
SpecBulk == InitBulk /\ [][Next]_vars

\* ------------------------------------------------------------------ claims
\* The k-th smallest element of a set of indices.
Kth(S, k) == CHOOSE i \in S : Cardinality({j \in S : j <= i}) = k
FirstSeen(s, v) == SetMin({i \in DOMAIN s : s[i] = v})
YearDefined(r) == r.year # NaN
InYearRange(r) ==
    YearDefined(r) /\ year_range[1] <= r.year /\ r.year <= year_range[2]

\* C1: once the filter has run, filtered_df is exactly the rows of df whose
\* year is defined and lies in [lo, hi], in df's order: none outside the
\* range or with an undefined year is in it, none inside is missing.
C1_FilterExact ==
    Computed("filter") =>
        LET t == df.rows
            f == filtered_df.rows
            keep == {i \in DOMAIN t : InYearRange(t[i])}
        IN /\ year_range[1] <= year_range[2]
           /\ Len(f) = Cardinality(keep)
           /\ \A k \in DOMAIN f : f[k] = t[Kth(keep, k)]
           /\ \A k \in DOMAIN f : InYearRange(f[k])

\* C1 witness: a filter that kept a row and left out both a row with an
\* undefined year and a row with a year outside the range.
C1_Witness ==
    /\ Computed("filter")
    /\ filtered_df.rows # <<>>
    /\ \E i \in DOMAIN df.rows : ~YearDefined(df.rows[i])
    /\ \E i \in DOMAIN df.rows :
          YearDefined(df.rows[i]) /\ ~InYearRange(df.rows[i])

\* The selection lies within the table's own year bounds and selects nothing.
EmptyWithinBounds ==
    /\ Computed("filter")
    /\ min_year <= year_range[1] /\ year_range[1] <= year_range[2]
    /\ year_range[2] <= max_year
    /\ filtered_df.rows = <<>>

\* C2: a year range within the table's bounds that selects no record is a
\* valid input: the aggregates computed for it are empty and the script's
\* own statements raise nothing (what the plotting back end does with an
\* empty chart is left aside).
C2_EmptyResultIsValid ==
    EmptyWithinBounds =>
        /\ err \in {"none", "IndexError"}
        /\ Computed("year_counts") => year_counts = <<>>
        /\ Computed("top_journals") => top_journals = <<>>
        /\ Computed("common_words") => common_words = <<>>

\* C3: the default selection handed to the slider lies within the table's
\* year bounds [min_year, max_year], and is (2020, 2021) when both lie inside.
C3_DefaultWithinBounds ==
    Past("slider") =>
        LET d == DefaultValue(min_year, max_year)
        IN /\ min_year <= d[1] /\ d[1] <= d[2] /\ d[2] <= max_year
           /\ (min_year <= DefaultLo /\ DefaultHi <= max_year)
                 => d = <<DefaultLo, DefaultHi>>

\* The sum of the counts of <<value, count>> pairs.
TotalCount(h) ==
    LET m == SetMax({0} \cup {h[k][2] : k \in DOMAIN h})
    IN Cardinality({p \in (DOMAIN h) \X (1..m) : p[2] <= h[p[1]][2]})

\* C4: the year histogram has one pair per distinct year of the filtered
\* table, in ascending year order, each count the number of filtered rows of
\* that year, and the counts sum to the size of the filtered table; years
\* [2019, 2020, 2020, 2021, 2022] with range (2020, 2021) give 3 rows and
\* the histogram [(2020, 2), (2021, 1)].
C4_YearHistogram ==
    /\ Computed("year_counts") =>
          LET f == filtered_df.rows
              h == year_counts
          IN /\ \A k \in 1..(Len(h) - 1) : h[k][1] < h[k + 1][1]
             /\ {h[k][1] : k \in DOMAIN h} = {f[i].year : i \in DOMAIN f}
             /\ \A k \in DOMAIN h :
                   h[k][2] = Cardinality({i \in DOMAIN f : f[i].year = h[k][1]})
             /\ TotalCount(h) = Len(f)
    /\ LET ex == Filter(<<[year |-> 2019], [year |-> 2020], [year |-> 2020],
                          [year |-> 2021], [year |-> 2022]>>, 2020, 2021)
       IN Len(ex) = 3 /\ YearCounts(ex) = <<(<<2020, 2>>), (<<2021, 1>>)>>

\* C4 witness: a histogram of two or more years over a filtered table whose
\* rows are not in ascending year order and where a year has several rows.
C4_Witness ==
    /\ Computed("year_counts")
    /\ Len(year_counts) >= 2
    /\ \E k \in DOMAIN year_counts : year_counts[k][2] >= 2
    /\ \E i, j \in DOMAIN filtered_df.rows :
          i < j /\ filtered_df.rows[i].year > filtered_df.rows[j].year

\* The journal cells and the lowercased title tokens of the filtered table.
FilteredJournals == NotMissing(Column(filtered_df.rows, "journal"), NA)
Lowered(w) == Word(w.stem, FALSE)
FilteredWords ==
    LET toks == Flatten([i \in DOMAIN filtered_df.rows |->
                            filtered_df.rows[i].title.tokens])
    IN [i \in DOMAIN toks |-> Lowered(toks[i])]

\* list is a top-n list of the values vals: at most n entries, each with its
\* value's true count, counts non-increasing, nothing left out that has a
\* strictly greater count than an entry.
IsTopList(list, vals, n) ==
    /\ Len(list) <= n
    /\ \A k \in DOMAIN list : list[k][2] = Occurrences(vals, list[k][1])
    /\ \A k \in DOMAIN list : list[k][2] >= 1
    /\ \A k, l \in DOMAIN list : k < l => list[k][1] # list[l][1]
    /\ \A k \in 1..(Len(list) - 1) : list[k][2] >= list[k + 1][2]
    /\ \A v \in Range(vals) \ {list[k][1] : k \in DOMAIN list} :
          /\ Len(list) = n
          /\ \A k \in DOMAIN list : Occurrences(vals, v) <= list[k][2]

\* C5: the top-journals list has at most 10 entries and the top-title-words
\* list at most 20, each in non-increasing order of count, and no journal
\* (word) left out has a strictly greater count than one in the list.
C5_TopLists ==
    /\ Computed("top_journals") => IsTopList(top_journals, FilteredJournals, TopJournals)
    /\ Computed("common_words") => IsTopList(common_words, FilteredWords, TopWords)

\* C5 witness: both lists are full and both have left a value out.
C5_Witness ==
    /\ Computed("common_words")
    /\ Len(top_journals) = TopJournals
    /\ Cardinality(Range(FilteredJournals)) > TopJournals
    /\ Len(common_words) = TopWords
    /\ Cardinality(Range(FilteredWords)) > TopWords

\* list orders equal counts by first encounter in vals, and of the values
\* tied with its last entries it holds the ones encountered first.
TiesByFirstSeen(list, vals) ==
    /\ \A k, l \in DOMAIN list :
          (k < l /\ list[k][2] = list[l][2])
              => FirstSeen(vals, list[k][1]) < FirstSeen(vals, list[l][1])
    /\ \A v \in Range(vals) \ {list[k][1] : k \in DOMAIN list} :
          \A k \in DOMAIN list :
              list[k][2] = Occurrences(vals, v)
                  => FirstSeen(vals, list[k][1]) < FirstSeen(vals, v)

\* C9 as claimed: in both top-N lists equal counts are ordered by first
\* encounter, and a tie across the cut-off keeps the earlier-encountered.
C9_TiesByFirstSeen ==
    /\ Computed("top_journals") => TiesByFirstSeen(top_journals, FilteredJournals)
    /\ Computed("common_words") => TiesByFirstSeen(common_words, FilteredWords)

\* C9 amended: in the top-title-words list equal counts are ordered by first
\* encounter of the lowercased word, and a tie across the cut-off at 20
\* keeps the earlier-encountered words.
C9_WordTiesByFirstSeen ==
    Computed("common_words") => TiesByFirstSeen(common_words, FilteredWords)

\* C9 witness: a full word list that left out a word tied with its last
\* entry, and whose first entry is not the first word encountered.
C9_Witness ==
    /\ Computed("common_words")
    /\ Len(common_words) = TopWords
    /\ \E v \in Range(FilteredWords) \ {common_words[k][1] : k \in DOMAIN common_words} :
          Occurrences(FilteredWords, v) = common_words[TopWords][2]
    /\ common_words[1][1] # FilteredWords[1]
    /\ \E k \in 1..(TopWords - 1) : common_words[k][2] = common_words[k + 1][2]

\* The source chart's data is the filtered rows counted per value of the
\* source column: one pair per value present, with its number of rows.
CountsPerSource ==
    LET vals == NotMissing(Column(filtered_df.rows, "source"), NA)
    IN /\ Len(source_counts) = Cardinality(Range(vals))
       /\ {source_counts[k][1] : k \in DOMAIN source_counts} = Range(vals)
       /\ \A k \in DOMAIN source_counts :
             source_counts[k][2] = Occurrences(vals, source_counts[k][1])

\* C6 as claimed: with the columns title, publish_time, journal, abstract
\* and source the run is accepted (no KeyError) and the source view shows
\* the filtered rows counted per value of that column.
C6_GroupsBySource ==
    df.columns = RequiredColumns \cup {"source"} =>
        /\ err # "KeyError"
        /\ pc = "done" => CountsPerSource

\* C6 amended: the source view groups by the column named source_x.  With
\* that column in the file, a run that reaches the view raises no KeyError
\* and computes the filtered rows counted per value of source_x; with the
\* source column named source instead, a run that reaches the view raises
\* KeyError there and shows nothing.
C6_GroupsBySourceX ==
    /\ ("source_x" \in df.columns /\ Computed("source")) =>
          err # "KeyError" /\ CountsPerSource
    /\ ("source_x" \notin df.columns /\ Computed("source")) =>
          pc = "source" /\ err = "KeyError" /\ source_counts = <<>>
    /\ err = "KeyError" => pc = "source"

\* C6 witness: a finished run over a file with a source_x column whose
\* source view counts two sources.
C6_Witness ==
    /\ pc = "done"
    /\ "source_x" \in df.columns
    /\ Len(source_counts) >= 2
    /\ \E k \in DOMAIN source_counts : source_counts[k][2] >= 2

\* t is the table load_data makes of the file rows: the rows with both a
\* title and a publish_time, in file order, with the derived year undefined
\* exactly for a publish_time that is no date.
IsLoadedFrom(t, rows) ==
    LET keep == {i \in DOMAIN rows :
                    ~rows[i].title.na /\ rows[i].publish_time.kind # "missing"}
    IN /\ Len(t) = Cardinality(keep)
       /\ \A k \in DOMAIN t :
             LET r == rows[Kth(keep, k)]
             IN /\ t[k].title = r.title /\ t[k].journal = r.journal
                /\ t[k].abstract = r.abstract /\ t[k].source = r.source
                /\ r.publish_time.kind = "text" => t[k].year = NaN
                /\ r.publish_time.kind = "date" => t[k].year = r.publish_time.year

\* No row with an undefined year is in the filtered view or the histogram.
UndefinedYearsLeftOut ==
    /\ \A i \in DOMAIN filtered_df.rows : YearDefined(filtered_df.rows[i])
    /\ \A k \in DOMAIN year_counts : year_counts[k][1] # NaN

\* C7: a load that reads the file yields, in input order, exactly the rows
\* in which title and publish_time are both present, raising nothing; a
\* row whose publish_time is present but no date is kept with an undefined
\* year, and is in no filtered view and no year histogram.
C7_LoadedRows ==
    [][/\ (pc = "load" /\ loads' = loads + 1) =>
              pc' = "bounds" /\ err' = "none" /\ IsLoadedFrom(df'.rows, file.rows)
       /\ UndefinedYearsLeftOut']_vars

\* C7 witness: a loaded table that dropped a file row and kept a row with an
\* undefined year, filtered to a non-empty view.
C7_Witness ==
    /\ Computed("year_counts")
    /\ loads = 1
    /\ Len(df.rows) < Len(file.rows)
    /\ \E i \in DOMAIN df.rows : ~YearDefined(df.rows[i])
    /\ filtered_df.rows # <<>>

\* The titles that differ from t in letter case only.
CaseVariants(t) ==
    {Text([j \in DOMAIN t.tokens |-> Word(t.tokens[j].stem, u[j])]) :
        u \in [DOMAIN t.tokens -> BOOLEAN]}

\* C8: replacing any title of the filtered table by one that differs in
\* letter case only leaves the word counts and the top-20 list unchanged;
\* tokens equal after lowercasing are counted in one bucket.
C8_CaseInsensitive ==
    Computed("common_words") =>
        LET f == filtered_df.rows
        IN /\ \A i \in DOMAIN f : \A t \in CaseVariants(f[i].title) :
                 LET g == [f EXCEPT ![i].title = t]
                 IN /\ word_freq(g) = word_freq(f)
                    /\ most_common(word_freq(g), TopWords) = common_words
           /\ \A k \in DOMAIN word_freq(f) :
                 word_freq(f)[k][2] =
                     Occurrences(FilteredWords, Lowered(word_freq(f)[k][1]))

\* C8 witness: the filtered titles hold a word in both letter cases.
C8_Witness ==
    /\ Computed("common_words")
    /\ \E i, j \in DOMAIN filtered_df.rows :
          \E a \in Range(filtered_df.rows[i].title.tokens) :
              \E b \in Range(filtered_df.rows[j].title.tokens) :
                  a.stem = b.stem /\ a.upper /\ ~b.upper

\* C10: the file is read at most once; once loaded the cached table never
\* changes; every run works on the table the first load produced, and no
\* step after load_data writes to it.
C10_LoadedOnce ==
    [][/\ loads' <= 1
       /\ cache.loaded => cache' = cache
       /\ pc' # "load" => (cache'.loaded /\ df' = cache'.value)
       /\ (pc # "load" /\ pc' # "load") => df' = df]_vars

\* C10 witness: a rerun finished after the file on disk had changed, still
\* on the table of the first load.
C10_Witness ==
    /\ pc = "done"
    /\ loads = 1
    /\ df = cache.value
    /\ LoadTable(file.rows) # df.rows
    /\ year_range # <<DefaultLo, DefaultHi>>
====
